---- MODULE Spec2Model ----
(***************************************************************************)
(* Monte Carlo tree search engine of skylerberg/monte_carlo                 *)
(* (src/src/monte_carlo.rs, src/src/game.rs).                               *)
(*                                                                         *)
(* The tree is a function from paths (sequences of choices from the root)  *)
(* to nodes.  One call of monte_carlo_tree_search is played step by step:  *)
(* build_tree's loop, and inside it the recursive iteration, whose call    *)
(* stack is the path `node` (the frames are the prefixes of the path).     *)
(* f64 rewards of the decision processes modelled here are 0.0 and 1.0, so *)
(* games and cumulative_reward are integers.                               *)
(***************************************************************************)
EXTENDS Integers, Sequences, FiniteSets, TLC

\* ------------------------------------------------------------------ bounds
\* Largest iteration budget a caller passes for the small decision processes.
MaxIterations == 9
\* Number of search calls made on one engine object.
MaxCalls == 2
\* The number of actions within which a play is asked to end.
MaxPlayoutLength == 3

\* ------------------------------------------------- program constants (tests)
\* tests::finds_best: monte_carlo_tree_search(game, 8)
FindsBestIterations == 8
\* tests::defeats_trap: monte_carlo_tree_search(game, 40)
DefeatsTrapIterations == 40
None == <<>>
Some(x) == <<x>>

Range(s) == {s[i] : i \in 1..Len(s)}

Last(s) == s[Len(s)]
Front(s) == SubSeq(s, 1, Len(s) - 1)

\* ======================================================================
\* Decision processes (implementations of trait Game)
\* ======================================================================

you == 0
them == 1

\* GameNode trees of tests::CustomGameTree, addressed by the path of child
\* indices from the tree's root.  GameNodeChildren is children.len(),
\* GameNodeWinner the node's winner (None or Some(player)).
\* "minimal_trap" is CustomGameTree::minimal_trap(); the others are further
\* values of the same struct: "dead_end" has a non-terminal node without
\* children two levels below the root, "stuck" is a non-terminal root
\* without children, "won" is a root that is already terminal.
GameNodeChildren(t, p) ==
    CASE t = "minimal_trap" ->
             (IF p = <<>> THEN 2
              ELSE IF p = <<0>> THEN 3
              ELSE IF p = <<1>> THEN 3
              ELSE IF Len(p) = 2 /\ p[1] = 1 THEN 3
              ELSE 0)
      [] t = "dead_end" ->
             (IF p = <<>> THEN 2 ELSE IF p = <<1>> THEN 2 ELSE 0)
      [] OTHER -> 0

GameNodeWinner(t, p) ==
    CASE t = "minimal_trap" ->
             (IF Len(p) = 2 /\ p[1] = 0
                THEN (IF p[2] \in {0, 1} THEN Some(you) ELSE Some(them))
              ELSE IF Len(p) = 3
                THEN (IF p[3] = 0 THEN Some(you) ELSE Some(them))
              ELSE None)
      [] t = "dead_end" ->
             (IF p \in {<<0>>, <<1, 0>>} THEN Some(you) ELSE None)
      [] t = "stuck" -> None
      [] OTHER -> Some(you)

\* A decision-process state.  kind selects the implementation; the other
\* fields are the union of the implementations' fields.
\*   ThreeBranchThreeDepthAlwaysWin { turn_number }
\*   BinaryTreeDepthThreeZeroWins   { turn_number, points }
\*   CustomGameTree { state, active_player, player_count } (state = tree, pos)
\*   Hidden { turn_number, points, world }: a two-move process with hidden
\*     information, overriding get_determinization and choice_is_available
\*     as game.rs lines 21-29 ask of non-deterministic games: the second
\*     move offers action 1 only in world 1, each determinization samples the
\*     world, and the reward is 1 when both moves were action 1; it also
\*     overrides heuristic_early_terminate, ending a playout whose first
\*     move was action 0
NewGame(kind, t) ==
    [kind |-> kind, tree |-> t, turn_number |-> 0, points |-> 0,
     pos |-> <<>>, active_player |-> IF kind = "Custom" THEN you ELSE 1,
     world |-> 0]

ThreeBranchThreeDepthAlwaysWin == NewGame("ThreeBranch", "none")
BinaryTreeDepthThreeZeroWins == NewGame("Binary", "none")
CustomGameTree(t) == NewGame("Custom", t)
HiddenGame == NewGame("Hidden", "none")

\* fn get_all_choices(&self) -> Vec<Choice>
get_all_choices(game) ==
    CASE game.kind = "ThreeBranch" -> <<1, 2, 3>>
      [] game.kind = "Binary" -> <<0, 1>>
      [] game.kind = "Custom" ->
             [i \in 1..GameNodeChildren(game.tree, game.pos) |-> i - 1]
      [] game.kind = "Hidden" ->
             IF game.turn_number = 1 /\ game.world = 0 THEN <<0>> ELSE <<0, 1>>

\* fn apply_choice(&mut self, choice)
apply_choice(game, choice) ==
    CASE game.kind = "ThreeBranch" ->
             [game EXCEPT !.turn_number = @ + 1]
      [] game.kind = "Binary" ->
             [game EXCEPT !.turn_number = @ + 1,
                          !.points = IF choice = 1 THEN @ + 1 ELSE @]
      [] game.kind = "Custom" ->
             [game EXCEPT !.pos = Append(@, choice),
                          !.active_player = (@ + 1) % 2]
      [] game.kind = "Hidden" ->
             [game EXCEPT !.turn_number = @ + 1,
                          !.points = IF choice = 1 THEN @ + 1 ELSE @]

\* fn get_active_player_id(&self) -> PlayerId
get_active_player_id(game) ==
    IF game.kind = "Custom" THEN game.active_player ELSE 1

\* fn is_terminal(&self) -> bool
is_terminal(game) ==
    CASE game.kind = "ThreeBranch" -> game.turn_number >= 3
      [] game.kind = "Binary" -> game.turn_number >= 3
      [] game.kind = "Custom" -> GameNodeWinner(game.tree, game.pos) # None
      [] game.kind = "Hidden" -> game.turn_number >= 2

\* fn reward_for(&self, player_id) -> f64   (1.0 and 0.0 as 1 and 0)
reward_for(game, player_id) ==
    CASE game.kind = "ThreeBranch" -> 1
      [] game.kind = "Binary" -> IF game.points = 3 THEN 1 ELSE 0
      [] game.kind = "Custom" ->
             IF GameNodeWinner(game.tree, game.pos) = Some(player_id) THEN 1 ELSE 0
      [] game.kind = "Hidden" -> IF game.points = 2 THEN 1 ELSE 0

\* fn choice_is_available(&self, choice) -> bool   (default: true)
choice_is_available(game, choice) ==
    IF game.kind = "Hidden" THEN choice \in Range(get_all_choices(game)) ELSE TRUE

\* fn get_determinization(&self, from_perspective) -> Self
\* The set of clones the call can return (default: the exact clone).
get_determinization(game, from_perspective) ==
    IF game.kind = "Hidden" THEN {[game EXCEPT !.world = w] : w \in {0, 1}}
    ELSE {game}

\* fn heuristic_early_terminate(&self) -> bool   (default: false)
\* The hidden-information process cuts a playout short once it is lost.
heuristic_early_terminate(game) ==
    game.kind = "Hidden" /\ game.turn_number = 1 /\ game.points = 0

\* fn shuffle_on_expand(&self) -> bool   (default: true)
shuffle_on_expand(game) ==
    game.kind \in {"ThreeBranch", "Hidden"}

\* ======================================================================
\* Statistics tree
\* ======================================================================

EmptyMap == [x \in {} |-> 0]

\* MonteCarloTreeNode::new(owner, choice)
MonteCarloTreeNode_new(owner, choice) ==
    [games |-> 0, cumulative_reward |-> 0, player_id |-> owner,
     choice |-> choice, children |-> {},
     choice_availability_count |-> EmptyMap]

\* MonteCarloTreeNode::is_root
is_root(self) == self.choice = None

\* The orders thread_rng's shuffle can leave the choices in.
Shuffles(choices, shuffle) ==
    IF shuffle
      THEN {[k \in 1..Len(choices) |-> choices[f[k]]] :
                f \in Permutations(1..Len(choices))}
      ELSE {choices}

\* A loop body that bumps the count twice on a repeated sighting.
ExpandChoiceCountsTwice(acc, choice) ==
    LET self == acc.self
        counts == self.choice_availability_count
        counted == [x \in DOMAIN counts \cup {choice} |->
                       IF x = choice
                         THEN (IF choice \in DOMAIN counts
                                 THEN counts[choice] + 2 ELSE 0)
                         ELSE counts[x]]
        insert == is_root(self)
                  \/ (~acc.added_new_node /\ choice \notin self.children)
    IN  [self |-> [self EXCEPT !.choice_availability_count = counted,
                               !.children = IF insert THEN @ \cup {choice} ELSE @],
         added_new_node |-> acc.added_new_node \/ insert,
         created |-> IF insert THEN acc.created \cup {choice} ELSE acc.created]

\* A loop body without the else branch: a choice seen for the first time
\* gets no entry in the availability map.
ExpandChoiceCountsKnownOnly(acc, choice) ==
    LET self == acc.self
        counts == self.choice_availability_count
        counted == [x \in DOMAIN counts |->
                       IF x = choice THEN counts[x] + 1 ELSE counts[x]]
        insert == is_root(self)
                  \/ (~acc.added_new_node /\ choice \notin self.children)
    IN  [self |-> [self EXCEPT !.choice_availability_count = counted,
                               !.children = IF insert THEN @ \cup {choice} ELSE @],
         added_new_node |-> acc.added_new_node \/ insert,
         created |-> IF insert THEN acc.created \cup {choice} ELSE acc.created]

\* A loop body that forgets added_new_node: every missing child is inserted.
ExpandChoiceEager(acc, choice) ==
    LET self == acc.self
        counts == self.choice_availability_count
        counted == [x \in DOMAIN counts \cup {choice} |->
                       IF x = choice
                         THEN (IF choice \in DOMAIN counts
                                 THEN counts[choice] + 1 ELSE 0)
                         ELSE counts[x]]
        insert == is_root(self) \/ choice \notin self.children
    IN  [self |-> [self EXCEPT !.choice_availability_count = counted,
                               !.children = IF insert THEN @ \cup {choice} ELSE @],
         added_new_node |-> acc.added_new_node \/ insert,
         created |-> IF insert THEN acc.created \cup {choice} ELSE acc.created]

\* One pass of expand's `for choice in &choices` body: the availability
\* count of the choice, then the insertion of a child.
\* acc = [self, added_new_node, created].
ExpandChoice(acc, choice) ==
    LET self == acc.self
        counts == self.choice_availability_count
        counted == [x \in DOMAIN counts \cup {choice} |->
                       IF x = choice
                         THEN (IF choice \in DOMAIN counts
                                 THEN counts[choice] + 1 ELSE 0)
                         ELSE counts[x]]
        insert == is_root(self)
                  \/ (~acc.added_new_node /\ choice \notin self.children)
    IN  [self |-> [self EXCEPT !.choice_availability_count = counted,
                               !.children = IF insert THEN @ \cup {choice} ELSE @],
         added_new_node |-> acc.added_new_node \/ insert,
         created |-> IF insert THEN acc.created \cup {choice} ELSE acc.created]

RECURSIVE ExpandLoop(_, _)
ExpandLoop(acc, choices) ==
    IF choices = <<>> THEN acc
    ELSE ExpandLoop(ExpandChoice(acc, Head(choices)), Tail(choices))

\* An expand without the early return for an already expanded root.
ExpandEveryTime(self, choices) ==
    LET done == ExpandLoop([self |-> self, added_new_node |-> FALSE,
                            created |-> {}], choices)
    IN  [self |-> done.self, result |-> Some(choices), created |-> done.created]

\* MonteCarloTreeNode::expand(&mut self, game, shuffle), given the order the
\* shuffle left the choices in.  self: the node after the call; result: the
\* returned Option<Vec<Choice>>; created: the keys inserted into children.
expand(self, choices) ==
    IF is_root(self) /\ self.children # {}
      THEN [self |-> self, result |-> None, created |-> {}]
      ELSE LET done == ExpandLoop([self |-> self, added_new_node |-> FALSE,
                                   created |-> {}], choices)
           IN  [self |-> done.self, result |-> Some(choices),
                created |-> done.created]

\* ======================================================================
\* Selection values
\* ======================================================================

\* f64 values are kept in units of 1/10000.
\* ln(n) * 10^8 rounded, n = 1 .. 48.
LnTable ==
    << 0, 69314718, 109861229, 138629436, 160943791, 179175947, 194591015,
       207944154, 219722458, 230258509, 239789527, 248490665, 256494936,
       263905733, 270805020, 277258872, 283321334, 289037176, 294443898,
       299573227, 304452244, 309104245, 313549422, 317805383, 321887582,
       325809654, 329583687, 333220451, 336729583, 340119738, 343398720,
       346573590, 349650756, 352636052, 355534806, 358351894, 361091791,
       363758616, 366356165, 368887945, 371357207, 373766962, 376120012,
       378418963, 380666249, 382864140, 385014760, 387120101 >>

\* floor(sqrt(x)) by bisection on lo..hi, lo*lo <= x < hi*hi.
RECURSIVE ISqrtBetween(_, _, _)
ISqrtBetween(x, lo, hi) ==
    IF hi - lo <= 1 THEN lo
    ELSE LET mid == (lo + hi) \div 2
         IN  IF mid * mid <= x THEN ISqrtBetween(x, mid, hi)
             ELSE ISqrtBetween(x, lo, mid)

ISqrt(x) == ISqrtBetween(x, 0, 32768)

\* The value FloatOrd gives a NaN (its place in the order depends on the sign
\* bit the platform's sqrt leaves in it).
NaN == 0 - 1

\* f64::MAX, above every upper confidence bound.
F64Max == 1073741824

\* Two values closer than this many units are not told apart by the
\* fixed-point arithmetic below; the selection may take either as greater.
UcbResolution == 3

\* An upper confidence bound that subtracts the exploration term.
UcbExplorationSubtracted(cumulative_reward, games, total_game_count) ==
    IF total_game_count = 0 THEN NaN
    ELSE ((cumulative_reward * 10000) \div games) + 20000
         - (4 * ISqrt(LnTable[total_game_count] \div games)) \div 10

\* upper_confidence_bound(cumulative_reward, games, total_game_count, c)
\* with c = 0.4:  win_rate + c * sqrt(ln(total_game_count) / games).
\* ln(0) is -inf and its square root NaN.
upper_confidence_bound(cumulative_reward, games, total_game_count) ==
    IF total_game_count = 0 THEN NaN
    ELSE LET win_rate == (cumulative_reward * 10000) \div games
             root == ISqrt(LnTable[total_game_count] \div games)
         IN  win_rate + (4 * root) \div 10

\* A first-play value below every upper confidence bound.
FirstPlayZero(parent, child) == 0

\* MonteCarloTreeSearch::get_first_play_value (default policy)
get_first_play_value(parent, child) == F64Max

\* A selection value that takes the availability count at the root too.
SelectionValueByAvailability(parent, child) ==
    upper_confidence_bound(child.cumulative_reward, child.games,
                           parent.choice_availability_count[child.choice[1]])

\* MonteCarloTreeSearch::get_selection_value (default policy)
get_selection_value(parent, child) ==
    LET total_game_count ==
            IF is_root(parent) THEN parent.games
            ELSE parent.choice_availability_count[child.choice[1]]
    IN  upper_confidence_bound(child.cumulative_reward, child.games,
                               total_game_count)

\* The key of select's max_by_key for one child.
SelectKey(parent, child) ==
    IF child.games = 0 THEN get_first_play_value(parent, child)
    ELSE get_selection_value(parent, child)

\* a is below b in FloatOrd's order, whatever the rounding.
DefinitelyLess(a, b) == a # NaN /\ b # NaN /\ a + UcbResolution <= b

\* A min_by_key in the place of max_by_key.
MinByKey(cands, key) ==
    {c \in cands : \A d \in cands : ~DefinitelyLess(key[d], key[c])}

\* The keys max_by_key can return for the candidates `cands` (a set of keys)
\* whose values are key[c]: those no other candidate is certainly above.
\* Equal keys are returned by place in the map's iteration order, which the
\* hash map leaves open: any of them.
MaxByKey(cands, key) ==
    {c \in cands : \A d \in cands : ~DefinitelyLess(key[c], key[d])}

\* ======================================================================
\* The search: state
\* ======================================================================

VARIABLES
    game,        \* monte_carlo_tree_search's argument `game`
    iterations,  \* monte_carlo_tree_search's argument `iterations`
    tree,        \* build_tree's `tree`: path from the root -> node
    round,       \* how many rounds of build_tree's loop have completed
    pc,          \* where the call is: "idle", "build_tree", "iteration",
                 \* "select", "rollout", "record", "returned", "panicked"
    node,        \* path of the node of the innermost iteration/rollout frame
    playout,     \* that frame's `game`: the determinization being played
    result,      \* the returned (choice, MctsStats), or None
    panic,       \* which unwrap() failed, or "none"
    calls,       \* searches started on this engine object so far
    leaf,        \* deepest node this iteration has descended to
    passes,      \* path -> completed iterations whose path contains the node
    outcomes,    \* path -> sum of reward_for(owner) over those iterations
    expansions,  \* path -> expand calls made on the node
    rollouts,    \* path -> reward, for the node's owner, of the rollout started there
    sightings,   \* path -> choice -> expand calls whose get_all_choices listed it
    before       \* the tree as the running iteration found it

vars == <<game, iterations, tree, round, pc, node, playout, result, panic,
          calls, leaf, passes, outcomes, expansions, rollouts, sightings,
          before>>

Get(m, p) == IF p \in DOMAIN m THEN m[p] ELSE 0

IsPrefix(p, q) == Len(p) <= Len(q) /\ SubSeq(q, 1, Len(p)) = p

\* The searches callers make: a decision process and an iteration budget.
Searches ==
    ({ThreeBranchThreeDepthAlwaysWin} \X (0..MaxIterations))
    \cup ({BinaryTreeDepthThreeZeroWins} \X ((0..2) \cup {FindsBestIterations}))
    \cup ({HiddenGame} \X (0..MaxIterations))
    \cup ({CustomGameTree("minimal_trap")} \X {0, 2, DefeatsTrapIterations})
    \cup ({CustomGameTree("dead_end"), CustomGameTree("stuck"),
           CustomGameTree("won")} \X {0, 1, MaxIterations})

\* ======================================================================
\* The search: operations
\* ======================================================================

\* An outcome recorded from one fixed actor's perspective.
RecordOutcomeOnePerspective(self, final) ==
    [self EXCEPT !.cumulative_reward = @ + reward_for(final, you),
                 !.games = @ + 1]

\* MonteCarloTreeSearch::record_outcome
record_outcome(self, final) ==
    [self EXCEPT !.cumulative_reward = @ + reward_for(final, self.player_id),
                 !.games = @ + 1]

\* A build_tree that keeps the tree of the previous search.
KeptTree(previous, searched) ==
    IF <<>> \in DOMAIN previous THEN previous
    ELSE [p \in {<<>>} |-> MonteCarloTreeNode_new(get_active_player_id(searched), None)]

\* build_tree's `let mut tree = MonteCarloTreeNode::new(player_id, None)`;
\* `previous` is the tree of the engine's previous search, which is dropped.
NewTree(previous, searched) ==
    [p \in {<<>>} |-> MonteCarloTreeNode_new(get_active_player_id(searched), None)]

\* A decision by win rate.
DecisionKeyWinRate(child) ==
    IF child.games = 0 THEN 0
    ELSE (child.cumulative_reward * 10000) \div child.games

\* The key of monte_carlo_tree_search's max_by_key over the root's children.
DecisionKey(child) == child.games

\* Entry of monte_carlo_tree_search / build_tree.
Call(searched, budget) ==
    /\ pc \in {"idle", "returned"}
    /\ calls < MaxCalls
    /\ game' = searched
    /\ iterations' = budget
    /\ tree' = NewTree(tree, searched)
    /\ round' = 0
    /\ pc' = "build_tree"
    /\ node' = <<>>
    /\ playout' = searched
    /\ result' = None
    /\ calls' = calls + 1
    /\ leaf' = <<>>
    /\ passes' = EmptyMap
    /\ outcomes' = EmptyMap
    /\ expansions' = EmptyMap
    /\ rollouts' = EmptyMap
    /\ sightings' = EmptyMap
    /\ before' = EmptyMap
    /\ UNCHANGED panic

\* build_tree's loop body up to the call of iteration(&mut tree, determinization).
BuildTreeRound ==
    /\ pc = "build_tree"
    /\ round < iterations
    /\ \E determinization \in get_determinization(game, get_active_player_id(game)) :
           playout' = determinization
    /\ node' = <<>>
    /\ leaf' = <<>>
    /\ pc' = "iteration"
    /\ before' = tree
    /\ UNCHANGED <<game, iterations, tree, round, result, panic, calls,
                   passes, outcomes, expansions, rollouts, sightings>>

\* The return of the frame at `node` with the state `final`, the tree being
\* tree': to build_tree (after_iteration drops the state, next round) or to
\* the parent's record_outcome (line 97).
Return(final) ==
    IF node = <<>>
      THEN /\ round' = round + 1
           /\ pc' = "build_tree"
           /\ node' = node
           /\ playout' = game
           /\ leaf' = <<>>
           /\ before' = EmptyMap
           /\ passes' = [p \in DOMAIN tree' |->
                            Get(passes, p) + IF IsPrefix(p, leaf) THEN 1 ELSE 0]
           /\ outcomes' = [p \in DOMAIN tree' |->
                              Get(outcomes, p)
                              + IF IsPrefix(p, leaf)
                                  THEN reward_for(final, tree'[p].player_id)
                                  ELSE 0]
      ELSE /\ round' = round
           /\ pc' = "record"
           /\ node' = Front(node)
           /\ playout' = final
           /\ UNCHANGED <<leaf, passes, outcomes, before>>

\* iteration: `if game.is_terminal() { record_outcome; return game }`
IterationTerminal ==
    /\ pc = "iteration"
    /\ is_terminal(playout)
    /\ tree' = [tree EXCEPT ![node] = record_outcome(@, playout)]
    /\ Return(playout)
    /\ UNCHANGED <<game, iterations, result, panic, calls, expansions,
                   rollouts, sightings>>

\* A child owned by the actor who moves after the choice.
NewChildOwnedByNextActor(state, choice) ==
    MonteCarloTreeNode_new(get_active_player_id(apply_choice(state, choice)),
                           Some(choice))

\* expand: `MonteCarloTreeNode::new(active_player, Some(choice.clone()))` with
\* `active_player = game.get_active_player_id()`, the state being the one
\* expand was given.
NewChild(state, choice) ==
    MonteCarloTreeNode_new(get_active_player_id(state), Some(choice))

\* iteration: `let choices = node.expand(&game, game.shuffle_on_expand())`
Expand ==
    /\ pc = "iteration"
    /\ ~is_terminal(playout)
    /\ \E choices \in Shuffles(get_all_choices(playout), shuffle_on_expand(playout)) :
          LET e == expand(tree[node], choices)
              made == {Append(node, c) : c \in e.created}
              seen == IF node \in DOMAIN sightings THEN sightings[node]
                      ELSE EmptyMap
          IN  /\ tree' = [p \in DOMAIN tree \cup made |->
                             IF p = node THEN e.self
                             ELSE IF p \in made THEN NewChild(playout, Last(p))
                             ELSE tree[p]]
              /\ sightings' =
                    IF e.result = None THEN sightings
                    ELSE [p \in DOMAIN sightings \cup {node} |->
                            IF p = node
                              THEN [a \in DOMAIN seen \cup Range(choices) |->
                                      Get(seen, a)
                                      + IF a \in Range(choices) THEN 1 ELSE 0]
                              ELSE sightings[p]]
    /\ expansions' = [p \in DOMAIN expansions \cup {node} |->
                          Get(expansions, p) + IF p = node THEN 1 ELSE 0]
    /\ pc' = "select"
    /\ UNCHANGED <<game, iterations, round, node, playout, result, panic,
                   calls, leaf, passes, outcomes, rollouts, before>>

\* No filter: every child is a candidate.
CandidatesAll(parent, state) == parent.children

\* A filter with the test negated.
CandidatesUnavailable(parent, state) ==
    {c \in parent.children : ~choice_is_available(state, c)}

\* select's candidates: the children whose choice the state reports available.
Candidates(parent, state) ==
    {c \in parent.children : choice_is_available(state, c)}

\* The choices select can return at the node with path `at`.
select(t, at, state) ==
    LET cands == Candidates(t[at], state)
        key == [c \in cands |-> SelectKey(t[at], t[Append(at, c)])]
    IN  MaxByKey(cands, key)

\* iteration: select, after_selection, apply_choice, and the branch on
\* best_child.games == 0.0 into rollout or the recursive iteration.
\* select's unwrap() panics when no child is a candidate.
Select ==
    /\ pc = "select"
    /\ IF Candidates(tree[node], playout) = {}
         THEN /\ pc' = "panicked"
              /\ panic' = "select"
              /\ UNCHANGED <<node, playout, leaf>>
         ELSE \E selected_choice \in select(tree, node, playout) :
                LET best_child == Append(node, selected_choice)
                IN  /\ playout' = apply_choice(playout, selected_choice)
                    /\ node' = best_child
                    /\ leaf' = best_child
                    /\ pc' = IF tree[best_child].games = 0
                               THEN "rollout" ELSE "iteration"
                    /\ UNCHANGED panic
    /\ UNCHANGED <<game, iterations, tree, round, result, calls, passes,
                   outcomes, expansions, rollouts, sightings, before>>

\* MonteCarloTreeSearch::intercept_rollout_choice (default policy)
intercept_rollout_choice(state, choice) == choice

\* rollout: one pass of the while loop.  get_rollout_choice's unwrap()
\* panics when the state has no choices.
RolloutStep ==
    /\ pc = "rollout"
    /\ ~is_terminal(playout) /\ ~heuristic_early_terminate(playout)
    /\ IF get_all_choices(playout) = <<>>
         THEN /\ pc' = "panicked"
              /\ panic' = "rollout"
              /\ UNCHANGED playout
         ELSE /\ \E choice \in Range(get_all_choices(playout)) :
                    playout' = apply_choice(playout,
                                   intercept_rollout_choice(playout, choice))
              /\ UNCHANGED <<pc, panic>>
    /\ UNCHANGED <<game, iterations, tree, round, node, result, calls, leaf,
                   passes, outcomes, expansions, rollouts, sightings, before>>

\* A rollout that may return the state it holds whatever that state is.
RolloutReturnAnywhere ==
    /\ pc = "rollout"
    /\ tree' = [tree EXCEPT ![node] = record_outcome(@, playout)]
    /\ rollouts' = [p \in DOMAIN rollouts \cup {node} |->
                       IF p = node THEN reward_for(playout, tree[node].player_id)
                       ELSE rollouts[p]]
    /\ node' = Front(node)
    /\ pc' = "record"
    /\ UNCHANGED <<game, iterations, round, playout, result, panic, calls,
                   leaf, passes, outcomes, expansions, sightings, before>>

\* rollout returns; iteration records the outcome at best_child (line 90)
\* and goes on to record it at its own node.
RolloutReturn ==
    /\ pc = "rollout"
    /\ is_terminal(playout) \/ heuristic_early_terminate(playout)
    /\ tree' = [tree EXCEPT ![node] = record_outcome(@, playout)]
    /\ rollouts' = [p \in DOMAIN rollouts \cup {node} |->
                       IF p = node THEN reward_for(playout, tree[node].player_id)
                       ELSE rollouts[p]]
    /\ node' = Front(node)
    /\ pc' = "record"
    /\ UNCHANGED <<game, iterations, round, playout, result, panic, calls,
                   leaf, passes, outcomes, expansions, sightings, before>>

\* A frame that returns the final state without recording it at its node.
RecordSkipped ==
    /\ pc = "record"
    /\ tree' = tree
    /\ Return(playout)
    /\ UNCHANGED <<game, iterations, result, panic, calls, expansions,
                   rollouts, sightings>>

\* iteration: `self.record_outcome(node, &game); return game` (lines 97-98)
Record ==
    /\ pc = "record"
    /\ tree' = [tree EXCEPT ![node] = record_outcome(@, playout)]
    /\ Return(playout)
    /\ UNCHANGED <<game, iterations, result, panic, calls, expansions,
                   rollouts, sightings>>

\* monte_carlo_tree_search after build_tree: the child of the root with the
\* greatest games; unwrap() panics when the root has no children.  Equal
\* games are resolved by the map's iteration order: any of the greatest.
\* The Stats of the children's win rates are only printed.
ExtractDecision ==
    /\ pc = "build_tree"
    /\ round = iterations
    /\ LET root == tree[<<>>]
           key == [c \in root.children |-> DecisionKey(tree[<<c>>])]
       IN  IF root.children = {}
             THEN /\ pc' = "panicked"
                  /\ panic' = "no_children"
                  /\ UNCHANGED result
             ELSE /\ \E c \in {c \in root.children :
                                  \A d \in root.children : key[d] <= key[c]} :
                        result' = Some([choice |-> tree[<<c>>].choice[1],
                                        tree_cumulative_reward |-> root.cumulative_reward,
                                        tree_games |-> root.games])
                  /\ pc' = "returned"
                  /\ UNCHANGED panic
    /\ UNCHANGED <<game, iterations, tree, round, node, playout, calls, leaf,
                   passes, outcomes, expansions, rollouts, sightings, before>>

Init ==
    /\ game = ThreeBranchThreeDepthAlwaysWin
    /\ iterations = 0
    /\ tree = NewTree(EmptyMap, ThreeBranchThreeDepthAlwaysWin)
    /\ round = 0
    /\ pc = "idle"
    /\ node = <<>>
    /\ playout = ThreeBranchThreeDepthAlwaysWin
    /\ result = None
    /\ panic = "none"
    /\ calls = 0
    /\ leaf = <<>>
    /\ passes = EmptyMap
    /\ outcomes = EmptyMap
    /\ expansions = EmptyMap
    /\ rollouts = EmptyMap
    /\ sightings = EmptyMap
    /\ before = EmptyMap

Search == \E s \in Searches : Call(s[1], s[2])

Next ==
    \/ Search
    \/ BuildTreeRound
    \/ IterationTerminal
    \/ Expand
    \/ Select
    \/ RolloutStep
    \/ RolloutReturn
    \/ Record
    \/ ExtractDecision

Spec == Init /\ [][Next]_vars

\* rollout is a loop of one thread that nothing suspends: while it can make
\* its next step, it makes it.
FairSpec == Spec /\ WF_vars(RolloutStep) /\ WF_vars(RolloutReturn)

\* ======================================================================
\* Properties
\* ======================================================================

Root == tree[<<>>]
RootChild(c) == tree[<<c>>]
Returned == pc = "returned"
\* build_tree has run all its rounds.
TreeBuilt == (pc = "build_tree" /\ round = iterations) \/ pc = "returned"
\* Between two rounds of build_tree.
BetweenRounds == pc \in {"build_tree", "returned"}

\* C1: the recommended action is the incoming action of a root child whose
\* games is maximal among the root's children (the win rate plays no part),
\* and the returned statistics are the root's own games and cumulative_reward.
C1_RobustChild ==
    Returned =>
        /\ result[1].choice \in Root.children
        /\ \A d \in Root.children :
               RootChild(d).games <= RootChild(result[1].choice).games
        /\ RootChild(result[1].choice).choice = Some(result[1].choice)
        /\ result[1].tree_games = Root.games
        /\ result[1].tree_cumulative_reward = Root.cumulative_reward

\* A search returned a child although another root child has a strictly
\* higher win rate.
C1_Witness ==
    /\ Returned
    /\ \E d \in Root.children :
          LET c == result[1].choice
          IN  /\ RootChild(d).games > 0
              /\ RootChild(c).games >= 2
              /\ RootChild(d).cumulative_reward * RootChild(c).games
                   > RootChild(c).cumulative_reward * RootChild(d).games

\* The number of legal actions at the root of the searched state.
RootActions == Len(get_all_choices(game))

\* C2: after build_tree with exactly k iterations, k the number of legal root
\* actions, the root has k children, each with games = 1 and with
\* cumulative_reward equal to the reward of its single rollout.
C2_ExhaustiveBeforeRepeat ==
    (TreeBuilt /\ ~is_terminal(game) /\ iterations = RootActions) =>
        /\ Cardinality(Root.children) = RootActions
        /\ \A c \in Root.children :
              /\ RootChild(c).games = 1
              /\ <<c>> \in DOMAIN rollouts
              /\ RootChild(c).cumulative_reward = rollouts[<<c>>]

C2_Witness ==
    /\ TreeBuilt
    /\ game.kind \in {"ThreeBranch", "Custom"}
    /\ RootActions >= 2
    /\ iterations = RootActions
    /\ \A c \in Root.children : RootChild(c).games = 1

\* C3: in the process with k actions everywhere and reward 1 on every terminal
\* path, after n completed iterations, n a multiple of k, every root child has
\* games = n / k and cumulative_reward = games.
C3_EvenExploration ==
    (game.kind = "ThreeBranch" /\ BetweenRounds /\ round > 0
        /\ round % RootActions = 0) =>
        /\ Cardinality(Root.children) = RootActions
        /\ \A c \in Root.children :
              /\ RootChild(c).games = round \div RootActions
              /\ RootChild(c).cumulative_reward = RootChild(c).games

C3_Witness ==
    /\ game.kind = "ThreeBranch"
    /\ BetweenRounds
    /\ round = 3 * RootActions
    /\ \A c \in Root.children : RootChild(c).games = 3

\* C4: after any number of iterations, every node's games is the number of
\* iterations whose path passed through it, and its cumulative_reward the sum
\* over those iterations of reward_for(owner) on the iteration's final state.
C4_Backpropagation ==
    BetweenRounds =>
        \A p \in DOMAIN tree :
            /\ tree[p].games = Get(passes, p)
            /\ tree[p].cumulative_reward = Get(outcomes, p)

\* A node owned by the opponent, three levels deep, has been passed by
\* several iterations with differing outcomes.
C4_Witness ==
    /\ BetweenRounds
    /\ \E p \in DOMAIN tree :
          /\ Len(p) >= 2
          /\ tree[p].player_id = them
          /\ tree[p].games >= 3
          /\ tree[p].cumulative_reward \in 1..(tree[p].games - 1)

NoLegalActions(state) == ~is_terminal(state) /\ get_all_choices(state) = <<>>

C7_DefeatsTrap ==
    (Returned /\ game = CustomGameTree("minimal_trap")
        /\ iterations = DefeatsTrapIterations) =>
        result[1].choice = 1

\* The 40-iteration search of the trap returned although the first rollout of
\* root action 0 was won and that of root action 1 was lost.
C7_Witness ==
    /\ Returned
    /\ game = CustomGameTree("minimal_trap")
    /\ iterations = DefeatsTrapIterations
    /\ rollouts[<<0>>] = 1
    /\ rollouts[<<1>>] = 0

NonRootNodes == DOMAIN tree \ {<<>>}

C8_AvailabilityBound ==
    \A p \in NonRootNodes :
        \A a \in DOMAIN tree[p].choice_availability_count :
            tree[p].choice_availability_count[a] <= Get(expansions, p)

C8_AvailabilityStep ==
    calls' = calls =>
        \A p \in NonRootNodes :
            \A a \in DOMAIN tree[p].choice_availability_count :
                /\ p \in DOMAIN tree'
                /\ a \in DOMAIN tree'[p].choice_availability_count
                /\ tree'[p].choice_availability_count[a]
                     >= tree[p].choice_availability_count[a]

\* C8: at a non-root node the availability count of an action never decreases
\* during a search, and never exceeds the number of expand calls made on the
\* node so far.
C8_AvailabilityMonotone ==
    []C8_AvailabilityBound /\ [][C8_AvailabilityStep]_vars

\* An action has been counted three times at a non-root node where another
\* action has been counted less often.
C8_Witness ==
    \E p \in NonRootNodes :
        \E a, b \in DOMAIN tree[p].choice_availability_count :
            /\ tree[p].choice_availability_count[a] >= 3
            /\ tree[p].choice_availability_count[b]
                 < tree[p].choice_availability_count[a]

FreshTree(searched) ==
    [p \in {<<>>} |->
        [games |-> 0, cumulative_reward |-> 0,
         player_id |-> get_active_player_id(searched), choice |-> None,
         children |-> {}, choice_availability_count |-> EmptyMap]]

\* C9: for a deterministic decision process every search starts from a fresh
\* root without children and ends with a root games equal to its budget,
\* whatever searches the engine object ran before.
C9_NoCrossCallState ==
    game.kind # "Hidden" =>
        /\ (pc = "build_tree" /\ round = 0) => tree = FreshTree(game)
        /\ TreeBuilt => Root.games = iterations

\* A second search on the engine object returned, with another budget and
\* another decision process than the search before it would have had to
\* leave behind.
C9_Witness ==
    /\ calls = 2
    /\ Returned
    /\ game = BinaryTreeDepthThreeZeroWins
    /\ iterations = FindsBestIterations
    /\ Root.games = FindsBestIterations

\* The step is an expand call on a non-root node.
ExpandsNonRoot == pc = "iteration" /\ pc' = "select" /\ node # <<>>
NewChildren == tree'[node].children \ tree[node].children

\* C10 as stated: an expand call on a non-root node creates at most one child,
\* and on a node with a child it creates exactly one until every action seen
\* so far at the node (every key of the availability map) has a child, and
\* none after that.
C10_LazyUntilAllSeen ==
    [][ExpandsNonRoot =>
        /\ Cardinality(NewChildren) <= 1
        /\ tree[node].children # {} =>
              IF DOMAIN tree'[node].choice_availability_count
                     \subseteq tree[node].children
                THEN NewChildren = {}
                ELSE Cardinality(NewChildren) = 1]_vars

\* C10 amended: an expand call on a non-root node creates at most one child,
\* and on a node with a child it creates exactly one while some action legal
\* in the state given to the call has no child, and none otherwise.
C10_LazyUntilAllLegal ==
    [][ExpandsNonRoot =>
        /\ Cardinality(NewChildren) <= 1
        /\ tree[node].children # {} =>
              IF Range(get_all_choices(playout)) \subseteq tree[node].children
                THEN NewChildren = {}
                ELSE Cardinality(NewChildren) = 1]_vars

\* An expand call has just added the one child an action seen before lacked,
\* at a non-root node that had a child, while another seen action still has
\* none or all have one.
C10_Witness ==
    /\ pc = "select"
    /\ node # <<>>
    /\ Cardinality(tree[node].children) >= 2
    /\ Cardinality({c \in tree[node].children :
                       tree[Append(node, c)].games = 0}) = 1

\* ----------------------------------------------------------------------
\* C11: the root is expanded once.  The expand call that finds the root
\* without children gives it one child per legal action of the state it is
\* given; every expand call on a root that has children returns None and
\* changes nothing in the tree; and once the root has children, no step of
\* the search changes its child set or its availability counts.
C11_LaterExpandIsNoOp ==
    (pc = "iteration" /\ node = <<>> /\ Root.children # {})
        => \A choices \in Shuffles(get_all_choices(playout),
                                   shuffle_on_expand(playout)) :
              expand(Root, choices)
                  = [self |-> Root, result |-> None, created |-> {}]

C11_RootExpandStep ==
    (pc = "iteration" /\ pc' = "select" /\ node = <<>>)
        => IF Root.children = {}
             THEN /\ tree'[<<>>].children = Range(get_all_choices(playout))
                  /\ \A c \in Range(get_all_choices(playout)) :
                        /\ <<c>> \in DOMAIN tree'
                        /\ tree'[<<c>>].choice = Some(c)
             ELSE tree' = tree

C11_RootChildrenFixed ==
    (Root.children # {} /\ calls' = calls)
        => /\ tree'[<<>>].children = Root.children
           /\ tree'[<<>>].choice_availability_count
                  = Root.choice_availability_count

C11_RootExpandedOnce ==
    /\ []C11_LaterExpandIsNoOp
    /\ [][C11_RootExpandStep /\ C11_RootChildrenFixed]_vars

\* The root has been through expand at least twice and is about to select.
C11_Witness ==
    /\ pc = "select" /\ node = <<>>
    /\ Root.children # {}
    /\ <<>> \in DOMAIN expansions /\ expansions[<<>>] >= 2

\* ----------------------------------------------------------------------
\* The expand calls on the node at path p whose get_all_choices listed a.
Sightings(p, a) ==
    IF p \in DOMAIN sightings /\ a \in DOMAIN sightings[p]
      THEN sightings[p][a] ELSE 0

\* C12: for every node and every action in its availability map, the
\* availability count of the action equals the number of expand calls on
\* the node in which get_all_choices listed the action.
C12_CountEqualsSightings ==
    \A p \in DOMAIN tree :
        \A a \in DOMAIN tree[p].choice_availability_count :
            tree[p].choice_availability_count[a] = Sightings(p, a)

\* What expand keeps instead: the first sighting stores 0, so the count is
\* one less than the number of sightings.
C12_CountLagsSightings ==
    \A p \in DOMAIN tree :
        \A a \in DOMAIN tree[p].choice_availability_count :
            tree[p].choice_availability_count[a] = Sightings(p, a) - 1

\* ----------------------------------------------------------------------
\* The state the choices of a path lead to from a state.
RECURSIVE Position(_, _)
Position(state, path) ==
    IF path = <<>> THEN state
    ELSE Position(apply_choice(state, Head(path)), Tail(path))

\* C13 as stated: every node is owned by the actor to move in the state the
\* node stands for, the searched state for the root and the state after the
\* incoming action for every other node.
C13_OwnerIsActorAtNode ==
    \A p \in DOMAIN tree :
        tree[p].player_id = get_active_player_id(Position(game, p))

\* C13: the root is owned by the actor to move in the searched state, and
\* every other node by the actor to move in its parent's state, the actor
\* who makes the node's incoming choice.
C13_OwnerIsActorAtParent ==
    \A p \in DOMAIN tree :
        tree[p].player_id =
            IF p = <<>> THEN get_active_player_id(game)
            ELSE get_active_player_id(Position(game, Front(p)))

\* A two-actor search holds visited nodes of both actors.
C13_Witness ==
    /\ game.kind = "Custom"
    /\ \E p \in NonRootNodes, q \in NonRootNodes :
          /\ tree[p].games >= 1 /\ tree[q].games >= 1
          /\ tree[p].player_id = you /\ tree[q].player_id = them

\* ----------------------------------------------------------------------
\* The statistics a node had when the running iteration began; a node the
\* iteration created began with none.
GamesBefore(p) == IF p \in DOMAIN before THEN before[p].games ELSE 0
RewardBefore(p) ==
    IF p \in DOMAIN before THEN before[p].cumulative_reward ELSE 0
\* The step that ends an iteration: the root's frame returns to build_tree.
IterationEnds == pc \in {"iteration", "record"} /\ pc' = "build_tree"
InIteration == pc \in {"iteration", "select", "rollout", "record"}

\* C14: one iteration changes games and cumulative_reward on the nodes of
\* one path from the root to a leaf only: each node of the path gains one
\* game and the reward of the same final state for its owner, the child
\* before its parent, and every node off the path ends the iteration as it
\* began it (a child the iteration created off the path is still unvisited
\* and childless).
C14_PathOnly ==
    IterationEnds =>
        \A p \in DOMAIN tree' :
            IF IsPrefix(p, leaf)
              THEN /\ tree'[p].games = GamesBefore(p) + 1
                   /\ tree'[p].cumulative_reward
                        = RewardBefore(p) + reward_for(playout, tree'[p].player_id)
              ELSE IF p \in DOMAIN before THEN tree'[p] = before[p]
              ELSE tree'[p] = MonteCarloTreeNode_new(tree'[p].player_id,
                                                     Some(Last(p)))

\* While the frames return, the outcome is recorded at the nodes of the path
\* below the returning frame's node and nowhere else.
C14_ChildBeforeParent ==
    InIteration =>
        \A p \in DOMAIN tree :
            LET recorded == pc = "record" /\ IsPrefix(p, leaf)
                            /\ Len(p) > Len(node)
            IN  /\ tree[p].games
                     = GamesBefore(p) + IF recorded THEN 1 ELSE 0
                /\ tree[p].cumulative_reward
                     = RewardBefore(p)
                       + IF recorded THEN reward_for(playout, tree[p].player_id)
                         ELSE 0

C14_SinglePath == []C14_ChildBeforeParent /\ [][C14_PathOnly]_vars

\* An iteration three nodes deep is returning through the root's child,
\* with a sibling off the path that already has games.
C14_Witness ==
    /\ pc = "record" /\ Len(node) = 1 /\ Len(leaf) = 3
    /\ \E q \in NonRootNodes :
          Len(q) = 1 /\ ~IsPrefix(q, leaf) /\ tree[q].games >= 1

\* ----------------------------------------------------------------------
\* The step in which select returns a child.
Selects == pc = "select" /\ pc' # "panicked"

\* C15: the child select returns is a child of the node whose choice
\* choice_is_available reports legal in the current state, and it has no
\* games whenever some child with an available choice has no games.
C15_SelectStep ==
    Selects =>
        LET selected_choice == Last(node')
            available == {c \in tree[node].children :
                             choice_is_available(playout, c)}
        IN  /\ node' = Append(node, selected_choice)
            /\ selected_choice \in available
            /\ (\E c \in available : tree[Append(node, c)].games = 0)
                   => tree[node'].games = 0

C15_SelectAvailableUnvisitedFirst == [][C15_SelectStep]_vars

\* select has just returned an unvisited child of a node that has a visited
\* child as well.
C15_Witness ==
    /\ pc = "rollout" /\ node # <<>> /\ leaf = node
    /\ tree[node].games = 0
    /\ \E d \in tree[Front(node)].children :
          d # Last(node) /\ tree[Append(Front(node), d)].games >= 1

\* ----------------------------------------------------------------------
\* rollout's loop test: the state ends the playout.
Stops(state) == is_terminal(state) \/ heuristic_early_terminate(state)

\* Every play from the state ends within `actions` actions.
RECURSIVE EveryPlayStops(_, _)
EveryPlayStops(state, actions) ==
    \/ Stops(state)
    \/ /\ actions > 0
       /\ get_all_choices(state) # <<>>
       /\ \A c \in Range(get_all_choices(state)) :
             EveryPlayStops(apply_choice(state, c), actions - 1)

\* C16: rollout applies an action only to a state that is neither terminal
\* nor flagged by heuristic_early_terminate, and stays in its loop; at a
\* state that is terminal or flagged its one step is to return that very
\* state, so the state returned is the first of the playout that is
\* terminal or flagged.  Where every play from the state rollout holds
\* ends after finitely many actions, rollout eventually returns.
C16_RolloutLoop ==
    pc = "rollout" =>
        IF Stops(playout)
          THEN pc' = "record" /\ playout' = playout
          ELSE /\ pc' \in {"rollout", "panicked"}
               /\ pc' = "rollout" =>
                     \E choice \in Range(get_all_choices(playout)) :
                         playout' = apply_choice(playout, choice)

C16_RolloutReturns ==
    (pc = "rollout" /\ EveryPlayStops(playout, MaxPlayoutLength))
        ~> (pc = "record")

C16_RolloutStoppingRule == [][C16_RolloutLoop]_vars /\ C16_RolloutReturns

\* rollout has returned the state it was given, a state that is not
\* terminal and that heuristic_early_terminate flagged.
C16_Witness ==
    /\ pc = "record" /\ Len(leaf) = Len(node) + 1
    /\ tree[leaf].games = 1
    /\ heuristic_early_terminate(playout) /\ ~is_terminal(playout)

\* ----------------------------------------------------------------------
\* The choices get_all_choices listed in some expand call on the node at p.
Seen(p) == IF p \in DOMAIN sightings THEN DOMAIN sightings[p] ELSE {}

\* C17: in every reachable state and for every node, every key of children
\* is a key of choice_availability_count, and both maps have only keys that
\* get_all_choices listed in some expand call on the node.
C17_ChildrenHaveCounts ==
    \A p \in DOMAIN tree :
        /\ tree[p].children \subseteq DOMAIN tree[p].choice_availability_count
        /\ DOMAIN tree[p].choice_availability_count \subseteq Seen(p)
        /\ tree[p].children \subseteq Seen(p)

\* A node below the root with a child, a counted choice that has no child,
\* and a child whose count has been read by a selection.
C17_Witness ==
    \E p \in NonRootNodes :
        /\ tree[p].children # {}
        /\ tree[p].children # DOMAIN tree[p].choice_availability_count
        /\ \E c \in tree[p].children : tree[Append(p, c)].games >= 2

\* ----------------------------------------------------------------------
\* The sum of games over the children cs of the node at p.
RECURSIVE SumGames(_, _)
SumGames(p, cs) ==
    IF cs = {} THEN 0
    ELSE LET c == CHOOSE x \in cs : TRUE
         IN  tree[Append(p, c)].games + SumGames(p, cs \ {c})
ChildrenGames(p) == SumGames(p, tree[p].children)
\* The searched process is deterministic: its determinization is itself.
Deterministic ==
    get_determinization(game, get_active_player_id(game)) = {game}

\* C18: for a deterministic process, between iterations: the games of the
\* root of a non-terminal searched state equal the sum of its children's
\* games and the number of iterations completed; and every other node with
\* games >= 1 at a non-terminal position has games equal to 1 plus the sum
\* of its children's games.
C18_VisitConservation ==
    (BetweenRounds /\ Deterministic) =>
        /\ ~is_terminal(game) =>
              Root.games = ChildrenGames(<<>>) /\ Root.games = round
        /\ \A p \in NonRootNodes :
              (tree[p].games >= 1 /\ ~is_terminal(Position(game, p)))
                  => tree[p].games = 1 + ChildrenGames(p)

\* Between iterations of a deterministic search, a node two choices below
\* the root at a non-terminal position has children and games from
\* several iterations.
C18_Witness ==
    /\ BetweenRounds /\ Deterministic /\ round >= 2
    /\ \E p \in NonRootNodes :
          /\ Len(p) = 2 /\ ~is_terminal(Position(game, p))
          /\ tree[p].games >= 2 /\ tree[p].children # {}

\* ----------------------------------------------------------------------
\* C19: for a deterministic process (the same legal actions at a position
\* in every iteration, the default choice_is_available), whenever select
\* takes the upper confidence bound of a child, a candidate with games > 0,
\* the total count it is given (the root's games under the root, the
\* parent's availability count of the child's choice elsewhere) is at least
\* 1, and the value is a number.
C19_TotalCountPositive ==
    (pc = "select" /\ Deterministic) =>
        \A c \in Candidates(tree[node], playout) :
            LET child == tree[Append(node, c)]
                total_game_count ==
                    IF node = <<>> THEN tree[node].games
                    ELSE tree[node].choice_availability_count[c]
            IN  child.games > 0 =>
                    /\ total_game_count >= 1
                    /\ get_selection_value(tree[node], child) # NaN

\* select is at a node below the root with a visited candidate whose total
\* count is exactly 1.
C19_Witness ==
    /\ pc = "select" /\ Deterministic /\ node # <<>>
    /\ \E c \in Candidates(tree[node], playout) :
          /\ tree[Append(node, c)].games > 0
          /\ tree[node].choice_availability_count[c] = 1

\* ----------------------------------------------------------------------
\* The children expand has added to the node in the running iteration.
AddedChildren ==
    tree[node].children
        \ (IF node \in DOMAIN before THEN before[node].children ELSE {})

\* C20: the child expand creates at a node below the root is the child
\* select returns in the same iteration, and the iteration goes on to its
\* rollout; so between iterations every child of a node below the root has
\* games >= 1, and a node with games = 0 has no children.
C20_SelectsNewChild ==
    (Selects /\ node # <<>>) =>
        \A c \in AddedChildren :
            node' = Append(node, c) /\ pc' = "rollout"

C20_ChildrenVisited ==
    BetweenRounds =>
        /\ \A p \in NonRootNodes : \A c \in tree[p].children :
              tree[Append(p, c)].games >= 1
        /\ \A p \in DOMAIN tree :
              tree[p].games = 0 => tree[p].children = {}

C20_NewChildVisitedAtOnce ==
    []C20_ChildrenVisited /\ [][C20_SelectsNewChild]_vars

\* The rollout of a child that expand has just created below the root at a
\* node that had a visited child already.
C20_Witness ==
    /\ pc = "rollout" /\ Len(node) >= 2 /\ leaf = node
    /\ node \notin DOMAIN before
    /\ \E d \in tree[Front(node)].children :
          d # Last(node) /\ tree[Append(Front(node), d)].games >= 1

====
